---- MODULE Spec2Model ----
(***************************************************************************)
(* Prompt / background construction of the quest-generation notebooks:     *)
(*   create_training_prompt_formats    (finetune-llama2.ipynb)             *)
(*   create_generation_prompt_formats  (run-tuned-model.ipynb)             *)
(* A Python str is a sequence of one-character strings, so that substring  *)
(* tests, lower() and concatenation are computed and not assumed.          *)
(***************************************************************************)
EXTENDS Integers, Sequences, FiniteSets, TLC

(***************************************************************************)
(* Bounds of the checked input families.                                   *)
(***************************************************************************)
MaxDepth == 3
MaxKbs == 2
MaxRels == 2
MaxEdges == 2
MaxCalls == 3

(***************************************************************************)
(* Python str operations.                                                  *)
(***************************************************************************)
\* str.lower() on one character
LowerChar(c) ==
  CASE c = "A" -> "a" [] c = "B" -> "b" [] c = "C" -> "c" [] c = "D" -> "d"
    [] c = "E" -> "e" [] c = "F" -> "f" [] c = "G" -> "g" [] c = "H" -> "h"
    [] c = "I" -> "i" [] c = "J" -> "j" [] c = "K" -> "k" [] c = "L" -> "l"
    [] c = "M" -> "m" [] c = "N" -> "n" [] c = "O" -> "o" [] c = "P" -> "p"
    [] c = "Q" -> "q" [] c = "R" -> "r" [] c = "S" -> "s" [] c = "T" -> "t"
    [] c = "U" -> "u" [] c = "V" -> "v" [] c = "W" -> "w" [] c = "X" -> "x"
    [] c = "Y" -> "y" [] c = "Z" -> "z" [] OTHER -> c

\* str.upper() on one character
UpperChar(c) ==
  CASE c = "a" -> "A" [] c = "b" -> "B" [] c = "c" -> "C" [] c = "d" -> "D"
    [] c = "e" -> "E" [] c = "f" -> "F" [] c = "g" -> "G" [] c = "h" -> "H"
    [] c = "i" -> "I" [] c = "j" -> "J" [] c = "k" -> "K" [] c = "l" -> "L"
    [] c = "m" -> "M" [] c = "n" -> "N" [] c = "o" -> "O" [] c = "p" -> "P"
    [] c = "q" -> "Q" [] c = "r" -> "R" [] c = "s" -> "S" [] c = "t" -> "T"
    [] c = "u" -> "U" [] c = "v" -> "V" [] c = "w" -> "W" [] c = "x" -> "X"
    [] c = "y" -> "Y" [] c = "z" -> "Z" [] OTHER -> c

\* str.capitalize(): the first character upper case, the rest lower case
Capitalize(s) == [k \in 1..Len(s) |-> IF k = 1 THEN UpperChar(s[k]) ELSE LowerChar(s[k])]

\* str.lower()
Lower(s) == [k \in 1..Len(s) |-> LowerChar(s[k])]

\* the positions (0-based offsets) at which p occurs in s
Occurrences(p, s) ==
  {k \in 0..(Len(s) - Len(p)) : SubSeq(s, k + 1, k + Len(p)) = p}

\* Python's  p in s  for two strings
IsSubstr(p, s) == Occurrences(p, s) # {}

\* s ends with p
EndsWith(s, p) ==
  /\ Len(p) <= Len(s)
  /\ SubSeq(s, Len(s) - Len(p) + 1, Len(s)) = p

\* sep.join(parts)
RECURSIVE Join(_, _)
Join(parts, sep) ==
  IF parts = <<>> THEN <<>>
  ELSE IF Len(parts) = 1 THEN parts[1]
  ELSE parts[1] \o sep \o Join(Tail(parts), sep)

NL == <<"\n">>
SP == <<" ">>
DOT_SP == <<".", " ">>
DOT == <<".">>
IS_A == <<" ", "i", "s", " ", "a", " ">>
IS == <<" ", "i", "s", " ">>

BACKGROUND == <<"#", "#", "#", " ", "B", "a", "c", "k", "g", "r", "o", "u", "n", "d", ":">>
PLOTS_KEY == <<"#", "#", "#", " ", "P", "l", "o", "t", "s", ":">>
INTRO_BLURB == <<"T", "h", "e", " ", "q", "u", "e", "s", "t", " ", "r", "e", "l", "a", "t", "e", "d", " ", "t", "o", " ", "t", "h", "e", " ", "a", "b", "o", "v", "e", " ", "i", "n", "f", "o", "r", "m", "a", "t", "i", "o", "n", " ", "i", "s", " ", "a", "s", " ", "f", "o", "l", "l", "o", "w", "s", ":">>
QUEST == <<"#", "#", "#", " ", "Q", "u", "e", "s", "t", ":">>
END_KEY == <<"#", "#", "#", " ", "E", "n", "d">>
COLON_SP == <<":", " ">>

\* the quest keys the rendering loop tests for
K_DESCRIPTION == <<"d", "e", "s", "c", "r", "i", "p", "t", "i", "o", "n">>
K_TASKS == <<"t", "a", "s", "k", "s">>

\* the relation labels the traversal phrases, and one it does not
CONNECTED_TO == <<"c", "o", "n", "n", "e", "c", "t", "e", "d", " ", "t", "o">>
PRESENT_IN == <<"p", "r", "e", "s", "e", "n", "t", " ", "i", "n">>
HELD_BY == <<"h", "e", "l", "d", " ", "b", "y">>
NEAR == <<"n", "e", "a", "r">>

\* node types
LOCATION == <<"l", "o", "c", "a", "t", "i", "o", "n">>
CHARACTER == <<"c", "h", "a", "r", "a", "c", "t", "e", "r">>
OBJECT == <<"o", "b", "j", "e", "c", "t">>

(***************************************************************************)
(* networkx: the knowledge graph and its depth-first edge traversal.       *)
(* A graph is [nodes: the node names in stored order, attrs: name ->       *)
(* [type, description], edges: <<source, target, label>> in stored order]. *)
(***************************************************************************)
\* the successors of n in adjacency order (kg[n], G.neighbors(n))
Neighbors(G, n) ==
  LET es == SelectSeq(G.edges, LAMBDA e : e[1] = n)
  IN  [k \in 1..Len(es) |-> es[k][2]]

\* what a subscript with a missing key yields: the KeyError it raises
KEY_ERROR == <<"KeyError">>

\* kg[ent1][ent2]['label']; an edge stored without data has no label
EdgeLabel(G, ent1, ent2) ==
  LET es == SelectSeq(G.edges, LAMBDA e : e[1] = ent1 /\ e[2] = ent2)
  IN  IF Len(es[1]) >= 3 THEN es[1][3] ELSE KEY_ERROR

\* a read that falls back on the empty string, as dict.get(key, '') would
NodeAttrOrEmpty(G, n, a) ==
  IF a \in DOMAIN G.attrs[n] THEN G.attrs[n][a] ELSE <<>>

\* all_nodes[n][a]
NodeAttr(G, n, a) ==
  IF a \in DOMAIN G.attrs[n] THEN G.attrs[n][a] ELSE KEY_ERROR

\* the stack loop of networkx dfs_edges: a frame is (parent, hops left, children left);
\* the state after one pass of the loop is bound as the element of a one-element
\* set, so that it is computed once
RECURSIVE DfsLoop(_, _, _, _)
DfsLoop(G, stack, visited, out) ==
  IF stack = <<>> THEN out
  ELSE
    LET top == stack[Len(stack)]
        rest == SubSeq(stack, 1, Len(stack) - 1)
        child == Head(top.children)
        top2 == [top EXCEPT !.children = Tail(@)]
        frame == [parent |-> child, depth_now |-> top.depth_now - 1,
                  children |-> Neighbors(G, child)]
        next ==
          IF top.children = <<>>
          THEN [stack |-> rest, visited |-> visited, out |-> out]
          ELSE IF child \in visited
               THEN [stack |-> Append(rest, top2), visited |-> visited, out |-> out]
               ELSE [stack |-> IF top.depth_now > 1
                               THEN Append(Append(rest, top2), frame)
                               ELSE Append(rest, top2),
                     visited |-> visited \cup {child},
                     out |-> Append(out, <<top.parent, child>>)]
    IN  CHOOSE r \in {DfsLoop(G, n.stack, n.visited, n.out) : n \in {next}} : TRUE

\* a traversal that starts with no node marked visited, the source included
dfs_edges_source_unvisited(G, source, depth_limit) ==
  DfsLoop(G, <<[parent |-> source, depth_now |-> depth_limit,
                children |-> Neighbors(G, source)]>>, {}, <<>>)

\* list(nx.dfs_edges(kg, source=entity, depth_limit=depth_limit))
dfs_edges(G, source, depth_limit) ==
  DfsLoop(G, <<[parent |-> source, depth_now |-> depth_limit,
                children |-> Neighbors(G, source)]>>, {source}, <<>>)

\* list(nx.dfs_edges(kg, source=entity)): depth_limit=None means len(G)
dfs_edges_unlimited(G, source) == dfs_edges(G, source, Len(G.nodes))

\* random.sample(population, k): k elements from distinct positions, any order
Sample(population, k) ==
  {[i \in 1..k |-> population[p[i]]] :
     p \in {q \in [1..k -> 1..Len(population)] :
              \A a, b \in 1..k : a # b => q[a] # q[b]}}

(***************************************************************************)
(* The sentences the two notebook functions append to background.          *)
(***************************************************************************)
RECURSIVE Concat(_)
\* the concatenation of a sequence of strings (repeated background += ...)
Concat(parts) == IF parts = <<>> THEN <<>> ELSE Head(parts) \o Concat(Tail(parts))

\* f'{entity} is a {e_type}. '
TypeSentence(entity, e_type) == entity \o IS_A \o e_type \o DOT_SP

\* f'{entity} is {e_desc}. '
DescSentence(entity, e_desc) == entity \o IS \o e_desc \o DOT_SP

\* generation: f'{entity} is {rel[0]} {rel[1]}. '
KbRelSentence(entity, rel) == entity \o IS \o rel[1] \o SP \o rel[2] \o DOT_SP

\* training: f'{entity} is {rel[0]} {rel[1]}.'  (no blank after the full stop)
KbRelSentenceTraining(entity, rel) == entity \o IS \o rel[1] \o SP \o rel[2] \o DOT

\* training, one pass of  for kb in input['kbs']
KbBlockTraining(kb) ==
  TypeSentence(kb.name, kb.type)
    \o (IF kb.name # kb.description THEN DescSentence(kb.name, kb.description) ELSE <<>>)
    \o Concat([k \in 1..Len(kb.relations) |-> KbRelSentenceTraining(kb.name, kb.relations[k])])
    \o NL

\* generation, the description of one kb: only under  if KG_DEPTH > 0
KbDescGeneration(kb, depth) ==
  IF depth > 0 /\ kb.name # kb.description
  THEN DescSentence(kb.name, kb.description) ELSE <<>>

\* a sample size that takes KG_DEPTH itself, not KG_DEPTH - 1
SampleSizeWholeDepth(depth, e_relations) ==
  IF depth > Len(e_relations) THEN Len(e_relations) ELSE depth

\* generation, the size of the sample: KG_DEPTH - 1 capped at len(e_relations)
SampleSize(depth, e_relations) ==
  IF depth - 1 > Len(e_relations) THEN Len(e_relations) ELSE depth - 1

\* generation, the values  relations  can take for one kb
KbRelations(kb, depth) ==
  IF depth > 0 THEN Sample(kb.relations, SampleSize(depth, kb.relations))
  ELSE {kb.relations}

\* generation, one pass of  for kb in input['kbs']  with the chosen relations
KbBlockGeneration(kb, rels, depth) ==
  TypeSentence(kb.name, kb.type)
    \o KbDescGeneration(kb, depth)
    \o Concat([k \in 1..Len(rels) |-> KbRelSentence(kb.name, rels[k])])
    \o NL

\* x in a_list
InList(x, list) == \E k \in 1..Len(list) : list[k] = x

\* the introduction of ent1 of a traversed edge (both notebooks)
Ent1Intro(ent1, e1_type, e1_desc) ==
  TypeSentence(ent1, e1_type)
    \o (IF e1_desc # ent1 THEN DescSentence(ent1, e1_desc) ELSE <<>>)
    \o NL

\* an introduction of ent2 that leaves out the type sentence
Ent2IntroDescriptionOnly(ent1, ent2, e2_type, e2_desc) ==
  (IF e2_desc # ent2 THEN DescSentence(ent2, e2_desc) ELSE <<>>) \o NL

\* generation, the introduction of ent2 of a traversed edge
Ent2IntroGeneration(ent1, ent2, e2_type, e2_desc) ==
  TypeSentence(ent2, e2_type)
    \o (IF e2_desc # ent2 THEN DescSentence(ent2, e2_desc) ELSE <<>>)
    \o NL

\* training, the introduction of ent2: the type sentence is built on ent1
Ent2IntroTraining(ent1, ent2, e2_type, e2_desc) ==
  TypeSentence(ent1, e2_type)
    \o (IF e2_desc # ent2 THEN DescSentence(ent2, e2_desc) ELSE <<>>)
    \o NL

\* a phrasing whose "present in" branch for a location names ent1, not ent2 twice
RelSentenceLocationEnt1(ent1, ent2, rel, e1_type) ==
  (IF rel = CONNECTED_TO THEN ent1 \o IS \o rel \o SP \o ent2 \o DOT_SP ELSE <<>>)
    \o (IF rel = PRESENT_IN THEN ent1 \o IS \o rel \o SP \o ent2 \o DOT_SP ELSE <<>>)
    \o (IF rel = HELD_BY
        THEN IF e1_type = CHARACTER
             THEN ent2 \o IS \o rel \o SP \o ent1 \o DOT_SP
             ELSE ent1 \o IS \o rel \o SP \o ent2 \o DOT_SP
        ELSE <<>>)

\* the three  if rel == ...  statements of a traversed edge
RelSentence(ent1, ent2, rel, e1_type) ==
  (IF rel = CONNECTED_TO THEN ent1 \o IS \o rel \o SP \o ent2 \o DOT_SP ELSE <<>>)
    \o (IF rel = PRESENT_IN
        THEN IF e1_type = LOCATION
             THEN ent2 \o IS \o rel \o SP \o ent2 \o DOT_SP
             ELSE ent1 \o IS \o rel \o SP \o ent2 \o DOT_SP
        ELSE <<>>)
    \o (IF rel = HELD_BY
        THEN IF e1_type = CHARACTER
             THEN ent2 \o IS \o rel \o SP \o ent1 \o DOT_SP
             ELSE ent1 \o IS \o rel \o SP \o ent2 \o DOT_SP
        ELSE <<>>)

\* a skip test that forgets the reverse orientation
EdgeCompletedOneWay(ent1, ent2, rels) == InList(<<ent1, ent2>>, rels)

\* the test that skips a traversed edge
EdgeCompleted(ent1, ent2, rels) ==
  InList(<<ent1, ent2>>, rels) \/ InList(<<ent2, ent1>>, rels)

\* entity.lower() in plots.lower()
NodeMatches(entity, plots_text) == IsSubstr(Lower(entity), Lower(plots_text))

(***************************************************************************)
(* The checked inputs: entities, knowledge graphs, kbs, plots.             *)
(***************************************************************************)
Ann == <<"A", "n", "n">>
Lot == <<"L", "o", "t">>
Key == <<"K", "e", "y">>
Inn == <<"I", "n", "n">>
Delilah == <<"D", "e", "l", "i", "l", "a", "h">>
Brigmore_Manor == <<"B", "r", "i", "g", "m", "o", "r", "e", " ", "M", "a", "n", "o", "r">>
Names == {Ann, Lot, Key, Inn, Delilah, Brigmore_Manor}

A_SPY == <<"a", " ", "s", "p", "y">>
OLD == <<"o", "l", "d">>
THE_LEADER == <<"t", "h", "e", " ", "l", "e", "a", "d", "e", "r", " ", "o", "f", " ", "t", "h", "e", " ", "B", "r", "i", "g", "m", "o", "r", "e", " ", "W", "i", "t", "c", "h", "e", "s">>
A_LAIR == <<"a", " ", "l", "a", "i", "r", " ", "f", "o", "r", " ", "t", "h", "e", " ", "c", "i", "t", "y", "'", "s", " ", "o", "u", "t", "l", "a", "w", "s">>

\* node attributes of the game graphs; Key has no description of its own
NodeAttrs ==
  [n \in Names |->
     CASE n = Ann -> [type |-> CHARACTER, description |-> A_SPY]
       [] n = Lot -> [type |-> LOCATION, description |-> OLD]
       [] n = Key -> [type |-> OBJECT, description |-> Key]
       [] n = Inn -> [type |-> LOCATION, description |-> OLD]
       [] n = Delilah -> [type |-> CHARACTER, description |-> THE_LEADER]
       [] n = Brigmore_Manor -> [type |-> LOCATION, description |-> A_LAIR]]

NodeLists == {<<Ann, Key, Inn>>, <<Lot, Key, Ann>>}

EdgeChoices ==
  {<<Ann, Key, HELD_BY>>, <<Key, Ann, HELD_BY>>, <<Ann, Inn, PRESENT_IN>>,
   <<Inn, Key, PRESENT_IN>>, <<Inn, Ann, CONNECTED_TO>>, <<Key, Inn, NEAR>>,
   <<Lot, Key, CONNECTED_TO>>, <<Lot, Ann, PRESENT_IN>>}

Range(f) == {f[k] : k \in DOMAIN f}

MakeGraph(nodes, edges) ==
  [nodes |-> nodes, attrs |-> [n \in Range(nodes) |-> NodeAttrs[n]], edges |-> edges]

\* the edge lists over a node list: at most MaxEdges edges, in every stored order
EdgeLists(nodes) ==
  UNION {{f \in [1..k -> EdgeChoices] :
            /\ \A a, b \in 1..k : a # b => f[a] # f[b]
            /\ \A a \in 1..k : f[a][1] \in Range(nodes) /\ f[a][2] \in Range(nodes)} :
         k \in 0..MaxEdges}

Graphs == UNION {{MakeGraph(nodes, es) : es \in EdgeLists(nodes)} : nodes \in NodeLists}

FewGraphs ==
  {MakeGraph(<<Ann, Key, Inn>>, <<<<Ann, Inn, PRESENT_IN>>, <<Inn, Key, PRESENT_IN>>>>)}

\* the relations the dataset records for an entity; an example carries a prefix
KbRelationList(name) ==
  IF name = Ann THEN <<<<NEAR, Key>>, <<PRESENT_IN, Inn>>, <<HELD_BY, Key>>, <<NEAR, Inn>>>>
  ELSE <<<<HELD_BY, Ann>>, <<PRESENT_IN, Inn>>, <<NEAR, Ann>>, <<NEAR, Inn>>>>

KbRecord(name, r) ==
  [name |-> name, description |-> NodeAttrs[name].description,
   type |-> NodeAttrs[name].type, relations |-> SubSeq(KbRelationList(name), 1, r)]

KbChoices == {KbRecord(name, r) : name \in {Ann, Key}, r \in 0..MaxRels}

KbsChoices == UNION {[1..k -> KbChoices] : k \in 0..MaxKbs}

FewKbs == {<<>>, <<KbRecord(Ann, 1)>>, <<KbRecord(Key, 2)>>}

P_ANN == <<"s", "e", "e", " ", "A", "N", "N">>
P_KEY == <<"a", " ", "k", "e", "y">>
P_INN == <<"I", "n", "n">>
PlotsChoices == {<<>>, <<P_ANN, P_KEY>>, <<P_INN>>}
FewPlots == {<<P_ANN, P_KEY>>}

\* graphs of four nodes: a node two hops from Inn behind a node that a longer
\* path also leads to, in both adjacency orders of Inn; a graph with a
\* self-loop and cycles
WideGraphs ==
  {MakeGraph(<<Inn, Ann, Key, Lot>>,
             <<<<Inn, Ann, CONNECTED_TO>>, <<Inn, Key, PRESENT_IN>>,
               <<Ann, Key, HELD_BY>>, <<Key, Lot, NEAR>>>>),
   MakeGraph(<<Inn, Ann, Key, Lot>>,
             <<<<Inn, Key, PRESENT_IN>>, <<Inn, Ann, CONNECTED_TO>>,
               <<Ann, Key, HELD_BY>>, <<Key, Lot, NEAR>>>>),
   MakeGraph(<<Inn, Ann, Key, Lot>>,
             <<<<Inn, Inn, NEAR>>, <<Inn, Ann, CONNECTED_TO>>, <<Ann, Inn, CONNECTED_TO>>,
               <<Ann, Key, HELD_BY>>, <<Key, Ann, HELD_BY>>, <<Key, Inn, NEAR>>>>)}

\* the graph of Delilah and Brigmore Manor: the one edge as a directed graph
\* stores it, and as an undirected graph stores it (both adjacencies)
ScenarioGraphs ==
  {MakeGraph(<<Delilah, Brigmore_Manor>>, <<<<Delilah, Brigmore_Manor, PRESENT_IN>>>>),
   MakeGraph(<<Delilah, Brigmore_Manor>>,
             <<<<Delilah, Brigmore_Manor, PRESENT_IN>>, <<Brigmore_Manor, Delilah, PRESENT_IN>>>>)}

ScenarioKbs ==
  <<[name |-> Delilah, description |-> THE_LEADER, type |-> CHARACTER,
     relations |-> <<<<PRESENT_IN, Brigmore_Manor>>>>]>>

P_DELILAH == <<"D", "e", "l", "i", "l", "a", "h", " ", "m", "u", "s", "t", " ", "b", "e", " ", "s", "t", "o", "p", "p", "e", "d">>
P_MANOR == <<"s", "e", "a", "r", "c", "h", " ", "b", "r", "i", "g", "m", "o", "r", "e", " ", "m", "a", "n", "o", "r">>
ScenarioPlots == {<<P_KEY>>, <<P_DELILAH>>, <<P_MANOR>>, <<P_DELILAH, P_MANOR>>}

\* the graph of FewGraphs with one fault: a node without its description or its
\* type, or an edge stored without a label
FaultyGraphs ==
  LET G == MakeGraph(<<Ann, Key, Inn>>, <<<<Ann, Inn, PRESENT_IN>>, <<Inn, Key, PRESENT_IN>>>>)
  IN  {[G EXCEPT !.attrs[Inn] = [type |-> LOCATION]],
       [G EXCEPT !.attrs[Key] = [description |-> Key]],
       [G EXCEPT !.attrs[Ann] = [description |-> A_SPY]],
       [G EXCEPT !.edges[2] = <<Inn, Key>>],
       [G EXCEPT !.edges[1] = <<Ann, Inn>>]}

Depths == (0 - 1)..MaxDepth

K_TITLE == <<"t", "i", "t", "l", "e">>
K_OBJECTIVE == <<"o", "b", "j", "e", "c", "t", "i", "v", "e">>
V_TITLE == <<"t", "h", "e", " ", "K", "E", "Y">>
V_LONG == <<"l", "o", "n", "g">>
V_OBJECTIVE == <<"g", "e", "t", " ", "i", "t">>
T_FIND == <<"f", "i", "n", "d", " ", "x">>
T_KILL == <<"k", "i", "l", "l", " ", "Y">>
T_REPORT == <<"r", "e", "p", "o", "r", "t">>

\* a quest mapping is its items in insertion order: <<key, value>>
Quest0 ==
  <<<<K_TITLE, V_TITLE>>, <<K_DESCRIPTION, V_LONG>>, <<K_TASKS, <<T_FIND, T_KILL, T_REPORT>>>>>>

QuestChoices ==
  {Quest0,
   <<>>,
   <<<<K_TASKS, <<T_KILL, T_REPORT>>>>, <<K_OBJECTIVE, V_OBJECTIVE>>>>,
   <<<<K_TITLE, V_TITLE>>, <<K_TASKS, <<T_REPORT>>>>>>,
   <<<<K_DESCRIPTION, V_LONG>>, <<K_OBJECTIVE, V_OBJECTIVE>>, <<K_TASKS, <<>>>>>>}

\* an example record
Example(game, pl, kbs, quest) == [game |-> game, plots |-> pl, kbs |-> kbs, quest |-> quest]

\* an example record that lacks one field
Without(ex, field) == [k \in DOMAIN ex \ {field} |-> ex[k]]

\* the graph registry: one game loaded
Registry(G) == [g \in {"TESO"} |-> G]

\* (TRAIN_TYPE, example, graph registry) of a run: the kbs vary over one graph,
\* the graphs and plots vary over a few kbs, the quests vary in every mode,
\* one family names a game the registry has no graph for, one is the scenario
\* of Delilah and Brigmore Manor, one has a graph with a fault, and one has
\* examples that lack plots, kbs or quest
Examples ==
  {[mode |-> "text_kg", input |-> Example("TESO", pl, kbs, Quest0), kg_map |-> Registry(G)] :
     pl \in FewPlots, kbs \in KbsChoices, G \in FewGraphs}
  \cup
  {[mode |-> "text_kg", input |-> Example("TESO", pl, kbs, Quest0), kg_map |-> Registry(G)] :
     pl \in PlotsChoices, kbs \in FewKbs, G \in Graphs}
  \cup
  {[mode |-> m, input |-> Example("TESO", pl, kbs, q), kg_map |-> Registry(G)] :
     m \in {"no_kg", "text_kg", "tree_kg"}, pl \in PlotsChoices, kbs \in FewKbs,
     q \in QuestChoices, G \in FewGraphs}
  \cup
  {[mode |-> "text_kg", input |-> Example("BG1", pl, kbs, Quest0), kg_map |-> Registry(G)] :
     pl \in FewPlots, kbs \in FewKbs, G \in FewGraphs}
  \cup
  {[mode |-> "text_kg", input |-> Example("TESO", pl, ScenarioKbs, Quest0),
    kg_map |-> Registry(G)] :
     pl \in ScenarioPlots, G \in ScenarioGraphs}
  \cup
  {[mode |-> "text_kg", input |-> Example("TESO", pl, kbs, Quest0), kg_map |-> Registry(G)] :
     pl \in PlotsChoices, kbs \in FewKbs, G \in FaultyGraphs}
  \cup
  {[mode |-> m,
    input |-> Without(Example("TESO", pl, <<KbRecord(Ann, 1)>>, Quest0), field),
    kg_map |-> Registry(G)] :
     m \in {"no_kg", "text_kg", "tree_kg"}, field \in {"plots", "kbs", "quest"},
     pl \in FewPlots, G \in FewGraphs}
  \cup
  {[mode |-> "text_kg", input |-> Example("TESO", pl, kbs, Quest0), kg_map |-> Registry(G)] :
     pl \in PlotsChoices, kbs \in {<<>>, <<KbRecord(Ann, 1)>>}, G \in WideGraphs}

(***************************************************************************)
(* The state of one call of a prompt-format function.                      *)
(*   path            which notebook function runs                          *)
(*   TRAIN_TYPE, KG_DEPTH, kg_map   the notebook globals                   *)
(*   input           the example record                                    *)
(*   plots, background, completed_rels, completed_nodes, relations, edges  *)
(*                   the function's locals                                 *)
(*   kb_i, node_i, edge_j   the positions of the three for loops           *)
(*   quest_str, q_i  the quest text so far and the position of its loop    *)
(*   text, output    the fields the function sets on the example           *)
(*   rel_log         the pairs a relation sentence was written for so far  *)
(*   samples         the relations random.sample drew for each kb so far   *)
(*   calls, results  the number of the running call; what the calls before *)
(*                   it were given and returned as background              *)
(*   max_length, input_ids   the limit the sample was tokenized under and  *)
(*                   the tokens the tokenizer returned for its text        *)
(***************************************************************************)
VARIABLES path, TRAIN_TYPE, KG_DEPTH, kg_map, input, pc, plots, background,
          completed_rels, completed_nodes, relations, edges, kb_i, node_i, edge_j,
          quest_str, q_i, text, output, rel_log, samples, calls, results,
          max_length, input_ids

vars == <<path, TRAIN_TYPE, KG_DEPTH, kg_map, input, pc, plots, background,
          completed_rels, completed_nodes, relations, edges, kb_i, node_i, edge_j,
          quest_str, q_i, text, output, rel_log, samples, calls, results,
          max_length, input_ids>>

\* the locals and fields of the quest rendering and the final join
tail == <<quest_str, q_i, text, output>>

globals == <<path, TRAIN_TYPE, KG_DEPTH, kg_map, input>>

\* the record of the calls made before the running one
history == <<calls, results>>

\* what preprocess_batch adds to the sample
tokenized == <<max_length, input_ids>>

Init ==
  /\ path \in {"training", "generation"}
  /\ KG_DEPTH \in Depths
  /\ \E ex \in Examples :
       /\ TRAIN_TYPE = ex.mode
       /\ input = ex.input
       /\ kg_map = ex.kg_map
  /\ pc = "begin"
  /\ plots = <<>>
  /\ background = <<>>
  /\ completed_rels = <<>>
  /\ completed_nodes = <<>>
  /\ relations = <<>>
  /\ edges = <<>>
  /\ kb_i = 1
  /\ node_i = 1
  /\ edge_j = 1
  /\ quest_str = <<>>
  /\ q_i = 1
  /\ text = <<>>
  /\ output = <<>>
  /\ rel_log = <<>>
  /\ samples = <<>>
  /\ calls = 1
  /\ results = <<>>
  /\ max_length = 0
  /\ input_ids = <<>>

\* kg = kg_map[input['game']]
Kg == kg_map[input.game]

\* the locals of the background composition
composed == <<plots, background, completed_rels, completed_nodes, relations, edges,
              kb_i, node_i, edge_j, rel_log, samples>>

\* for kb in input['kbs']: the loop is entered, or the subscript raises KeyError
EnterKbs == IF "kbs" \in DOMAIN input THEN "kbs" ELSE "KeyError"

\* for k, v in input['quest'].items(): the loop is entered, or the subscript raises
EnterQuest == IF "quest" \in DOMAIN input THEN "quest" ELSE "KeyError"

\* a function whose completed_rels and completed_nodes outlive the call
BeginKeepCompleted ==
  /\ pc = "begin" /\ "plots" \in DOMAIN input
  /\ plots' = PLOTS_KEY \o NL \o Join(input.plots, NL)
  /\ background' = <<>>
  /\ pc' = IF TRAIN_TYPE = "text_kg" THEN EnterKbs ELSE EnterQuest
  /\ kb_i' = 1
  /\ UNCHANGED <<globals, history, tokenized, tail, completed_rels, completed_nodes, relations, edges,
                 node_i, edge_j, rel_log, samples>>

\* plots_str, plots and the empty background; then the branch on TRAIN_TYPE, which
\* in text_kg empties completed_rels and completed_nodes and starts the kb loop
Begin ==
  /\ pc = "begin" /\ "plots" \in DOMAIN input
  /\ plots' = PLOTS_KEY \o NL \o Join(input.plots, NL)
  /\ background' = <<>>
  /\ pc' = IF TRAIN_TYPE = "text_kg" THEN EnterKbs ELSE EnterQuest
  /\ IF TRAIN_TYPE = "text_kg"
     THEN completed_rels' = <<>> /\ completed_nodes' = <<>>
     ELSE UNCHANGED <<completed_rels, completed_nodes>>
  /\ kb_i' = 1
  /\ UNCHANGED <<globals, history, tokenized, tail, relations, edges, node_i, edge_j, rel_log, samples>>

\* plots_str = '\n'.join(input['plots']) raises KeyError: the example has no plots
BeginFails ==
  /\ pc = "begin" /\ "plots" \notin DOMAIN input
  /\ background' = <<>>
  /\ pc' = "KeyError"
  /\ UNCHANGED <<globals, history, tokenized, tail, plots, completed_rels, completed_nodes, relations,
                 edges, kb_i, node_i, edge_j, rel_log, samples>>

\* pairs that hold the relation's label where its target belongs
KbPairsByLabel(entity, rels) == [k \in 1..Len(rels) |-> <<entity, rels[k][1]>>]

\* the pairs one kb block appends to completed_rels
KbPairs(entity, rels) == [k \in 1..Len(rels) |-> <<entity, rels[k][2]>>]

\* training: one pass of  for kb in input['kbs']
KbTraining ==
  /\ pc = "kbs" /\ path = "training" /\ kb_i <= Len(input.kbs)
  /\ LET kb == input.kbs[kb_i]
     IN  /\ background' = background \o KbBlockTraining(kb)
         /\ completed_rels' = completed_rels \o KbPairs(kb.name, kb.relations)
         /\ rel_log' = rel_log \o KbPairs(kb.name, kb.relations)
         /\ completed_nodes' = Append(completed_nodes, kb.name)
  /\ kb_i' = kb_i + 1
  /\ UNCHANGED <<globals, history, tokenized, tail, pc, plots, relations, edges, node_i, edge_j, samples>>

\* a kb loop that puts each block in front of the text so far
KbGenerationPrepends ==
  /\ pc = "kbs" /\ path = "generation" /\ kb_i <= Len(input.kbs)
  /\ LET kb == input.kbs[kb_i]
     IN  \E rels \in KbRelations(kb, KG_DEPTH) :
           /\ relations' = rels
           /\ background' = KbBlockGeneration(kb, rels, KG_DEPTH) \o background
           /\ completed_rels' = completed_rels \o KbPairs(kb.name, rels)
           /\ rel_log' = rel_log \o KbPairs(kb.name, rels)
           /\ completed_nodes' = Append(completed_nodes, kb.name)
           /\ samples' = Append(samples, rels)
  /\ kb_i' = kb_i + 1
  /\ UNCHANGED <<globals, history, tokenized, tail, pc, plots, edges, node_i, edge_j>>

\* generation: one pass of  for kb in input['kbs']
KbGeneration ==
  /\ pc = "kbs" /\ path = "generation" /\ kb_i <= Len(input.kbs)
  /\ LET kb == input.kbs[kb_i]
     IN  \E rels \in KbRelations(kb, KG_DEPTH) :
           /\ relations' = rels
           /\ background' = background \o KbBlockGeneration(kb, rels, KG_DEPTH)
           /\ completed_rels' = completed_rels \o KbPairs(kb.name, rels)
           /\ rel_log' = rel_log \o KbPairs(kb.name, rels)
           /\ completed_nodes' = Append(completed_nodes, kb.name)
           /\ samples' = Append(samples, rels)
  /\ kb_i' = kb_i + 1
  /\ UNCHANGED <<globals, history, tokenized, tail, pc, plots, edges, node_i, edge_j>>

\* the traversal is entered: always in training, under  if KG_DEPTH > 0  in generation
TraversalRuns == path = "training" \/ KG_DEPTH > 0

\* kg = kg_map[input['game']] finds the graph
LookupGraph ==
  /\ pc = "kbs" /\ kb_i > Len(input.kbs)
  /\ TraversalRuns
  /\ input.game \in DOMAIN kg_map
  /\ pc' = "nodes"
  /\ node_i' = 1
  /\ UNCHANGED <<globals, history, tokenized, tail, plots, background, completed_rels, completed_nodes,
                 relations, edges, kb_i, edge_j, rel_log, samples>>

\* kg = kg_map[input['game']] raises KeyError
LookupFails ==
  /\ pc = "kbs" /\ kb_i > Len(input.kbs)
  /\ TraversalRuns
  /\ input.game \notin DOMAIN kg_map
  /\ pc' = "KeyError"
  /\ UNCHANGED <<globals, history, tokenized, tail, plots, background, completed_rels, completed_nodes,
                 relations, edges, kb_i, node_i, edge_j, rel_log, samples>>

\* generation with KG_DEPTH <= 0: the traversal block is not entered
SkipTraversal ==
  /\ pc = "kbs" /\ kb_i > Len(input.kbs)
  /\ ~TraversalRuns
  /\ pc' = "header"
  /\ UNCHANGED <<globals, history, tokenized, tail, plots, background, completed_rels, completed_nodes,
                 relations, edges, kb_i, node_i, edge_j, rel_log, samples>>

\* a traversal that drops depth_limit on the generation path too
TraversalEdgesNoLimit(p, G, entity, depth) == dfs_edges_unlimited(G, entity)

\* the edges the traversal from a matched node yields
TraversalEdges(p, G, entity, depth) ==
  IF p = "training" THEN dfs_edges_unlimited(G, entity)
  ELSE dfs_edges(G, entity, depth)

\* for node in all_nodes: the name is in the plots text, the traversal is listed
NodeMatch ==
  /\ pc = "nodes" /\ node_i <= Len(Kg.nodes)
  /\ NodeMatches(Kg.nodes[node_i], plots)
  /\ edges' = TraversalEdges(path, Kg, Kg.nodes[node_i], KG_DEPTH)
  /\ edge_j' = 1
  /\ pc' = "edges"
  /\ UNCHANGED <<globals, history, tokenized, tail, plots, background, completed_rels, completed_nodes,
                 relations, kb_i, node_i, rel_log, samples>>

\* for node in all_nodes: the name is not in the plots text
NodeNoMatch ==
  /\ pc = "nodes" /\ node_i <= Len(Kg.nodes)
  /\ ~NodeMatches(Kg.nodes[node_i], plots)
  /\ node_i' = node_i + 1
  /\ UNCHANGED <<globals, history, tokenized, tail, pc, plots, background, completed_rels, completed_nodes,
                 relations, edges, kb_i, edge_j, rel_log, samples>>

\* for ent1, ent2 in edges: the pair is completed, continue
EdgeSkip ==
  /\ pc = "edges" /\ edge_j <= Len(edges)
  /\ EdgeCompleted(edges[edge_j][1], edges[edge_j][2], completed_rels)
  /\ edge_j' = edge_j + 1
  /\ UNCHANGED <<globals, history, tokenized, tail, pc, plots, background, completed_rels, completed_nodes,
                 relations, edges, kb_i, node_i, rel_log, samples>>

\* completed_nodes after the two introductions of an edge
EdgeNodes(ent1, ent2, done) ==
  LET done1 == IF InList(ent1, done) THEN done ELSE Append(done, ent1)
  IN  IF InList(ent2, done1) THEN done1 ELSE Append(done1, ent2)

\* the introduction of ent2 as the running function writes it
Ent2Intro(p, ent1, ent2, e2_type, e2_desc) ==
  IF p = "training" THEN Ent2IntroTraining(ent1, ent2, e2_type, e2_desc)
  ELSE Ent2IntroGeneration(ent1, ent2, e2_type, e2_desc)

\* the introductions one processed edge appends to background
EdgeIntros(p, G, ent1, ent2, done) ==
  LET e1_type == NodeAttr(G, ent1, "type")
      e1_desc == NodeAttr(G, ent1, "description")
      e2_type == NodeAttr(G, ent2, "type")
      e2_desc == NodeAttr(G, ent2, "description")
      done1 == IF InList(ent1, done) THEN done ELSE Append(done, ent1)
  IN  (IF InList(ent1, done) THEN <<>> ELSE Ent1Intro(ent1, e1_type, e1_desc))
        \o (IF InList(ent2, done1) THEN <<>>
            ELSE Ent2Intro(p, ent1, ent2, e2_type, e2_desc))

\* the text one processed edge appends to background
EdgeText(p, G, ent1, ent2, done) ==
  EdgeIntros(p, G, ent1, ent2, done)
    \o RelSentence(ent1, ent2, EdgeLabel(G, ent1, ent2), NodeAttr(G, ent1, "type"))
    \o NL

\* one of the four reads of type and description raises KeyError
AttributeMissing(G, ent1, ent2) ==
  \E n \in {ent1, ent2} : \E a \in {"type", "description"} : NodeAttr(G, n, a) = KEY_ERROR

\* for ent1, ent2 in edges: the pair is new, the edge is written
EdgeProcess ==
  /\ pc = "edges" /\ edge_j <= Len(edges)
  /\ LET ent1 == edges[edge_j][1]
         ent2 == edges[edge_j][2]
     IN  /\ ~EdgeCompleted(ent1, ent2, completed_rels)
         /\ ~AttributeMissing(Kg, ent1, ent2)
         /\ EdgeLabel(Kg, ent1, ent2) # KEY_ERROR
         /\ background' = background \o EdgeText(path, Kg, ent1, ent2, completed_nodes)
         /\ completed_nodes' = EdgeNodes(ent1, ent2, completed_nodes)
         /\ completed_rels' = Append(completed_rels, <<ent1, ent2>>)
         /\ rel_log' = IF RelSentence(ent1, ent2, EdgeLabel(Kg, ent1, ent2),
                                      NodeAttr(Kg, ent1, "type")) = <<>>
                       THEN rel_log ELSE Append(rel_log, <<ent1, ent2>>)
  /\ edge_j' = edge_j + 1
  /\ UNCHANGED <<globals, history, tokenized, tail, pc, plots, relations, edges, kb_i, node_i, samples>>

\* the attribute reads placed before the skip test
EdgeAttributeReadFirst ==
  /\ pc = "edges" /\ edge_j <= Len(edges)
  /\ AttributeMissing(Kg, edges[edge_j][1], edges[edge_j][2])
  /\ pc' = "KeyError"
  /\ UNCHANGED <<globals, history, tokenized, tail, composed>>

\* for ent1, ent2 in edges: the pair is new, a node lacks its type or its
\* description: the reads before the first write raise KeyError
EdgeAttributeFails ==
  /\ pc = "edges" /\ edge_j <= Len(edges)
  /\ ~EdgeCompleted(edges[edge_j][1], edges[edge_j][2], completed_rels)
  /\ AttributeMissing(Kg, edges[edge_j][1], edges[edge_j][2])
  /\ pc' = "KeyError"
  /\ UNCHANGED <<globals, history, tokenized, tail, composed>>

\* for ent1, ent2 in edges: the pair is new, the edge has no label: the two
\* introductions are appended to the local background, then the read raises
EdgeLabelFails ==
  /\ pc = "edges" /\ edge_j <= Len(edges)
  /\ LET ent1 == edges[edge_j][1]
         ent2 == edges[edge_j][2]
     IN  /\ ~EdgeCompleted(ent1, ent2, completed_rels)
         /\ ~AttributeMissing(Kg, ent1, ent2)
         /\ EdgeLabel(Kg, ent1, ent2) = KEY_ERROR
         /\ background' = background \o EdgeIntros(path, Kg, ent1, ent2, completed_nodes)
         /\ completed_nodes' = EdgeNodes(ent1, ent2, completed_nodes)
  /\ pc' = "KeyError"
  /\ UNCHANGED <<globals, history, tokenized, tail, plots, completed_rels, relations, edges,
                 kb_i, node_i, edge_j, rel_log, samples>>

\* the edges of one matched node are exhausted: next node
EdgesEnd ==
  /\ pc = "edges" /\ edge_j > Len(edges)
  /\ pc' = "nodes"
  /\ node_i' = node_i + 1
  /\ UNCHANGED <<globals, history, tokenized, tail, plots, background, completed_rels, completed_nodes,
                 relations, edges, kb_i, edge_j, rel_log, samples>>

\* the nodes are exhausted
NodesEnd ==
  /\ pc = "nodes" /\ node_i > Len(Kg.nodes)
  /\ pc' = "header"
  /\ UNCHANGED <<globals, history, tokenized, tail, plots, background, completed_rels, completed_nodes,
                 relations, edges, kb_i, node_i, edge_j, rel_log, samples>>

\* a header line without its newline
HeaderNoNewline ==
  /\ pc = "header"
  /\ background' = BACKGROUND \o background
  /\ pc' = EnterQuest
  /\ UNCHANGED <<globals, history, tokenized, tail, plots, completed_rels, completed_nodes, relations, edges,
                 kb_i, node_i, edge_j, rel_log, samples>>

\* background = f"{BACKGROUND}\n{background}"
Header ==
  /\ pc = "header"
  /\ background' = BACKGROUND \o NL \o background
  /\ pc' = EnterQuest
  /\ UNCHANGED <<globals, history, tokenized, tail, plots, completed_rels, completed_nodes, relations, edges,
                 kb_i, node_i, edge_j, rel_log, samples>>

\* a loop that renders the description like any other field
QuestDescriptionRendered ==
  /\ pc = "quest" /\ q_i <= Len(input.quest)
  /\ input.quest[q_i][1] = K_DESCRIPTION
  /\ quest_str' = quest_str \o Capitalize(K_DESCRIPTION) \o COLON_SP
                     \o Capitalize(input.quest[q_i][2]) \o NL
  /\ q_i' = q_i + 1
  /\ UNCHANGED <<globals, history, tokenized, composed, pc, text, output>>

\* for k, v in input['quest'].items(): the description is passed over
QuestDescription ==
  /\ pc = "quest" /\ q_i <= Len(input.quest)
  /\ input.quest[q_i][1] = K_DESCRIPTION
  /\ q_i' = q_i + 1
  /\ UNCHANGED <<globals, history, tokenized, composed, pc, quest_str, text, output>>

\* '\n ' + '\n '.join(np.char.capitalize(v[:-1]))
TasksValue(v) ==
  LET kept == SubSeq(v, 1, Len(v) - 1)
  IN  NL \o SP \o Join([k \in 1..Len(kept) |-> Capitalize(kept[k])], NL \o SP)

\* f'{k.capitalize()}: {value}\n'
QuestLine(k, value) == Capitalize(k) \o COLON_SP \o value \o NL

\* a loop that drops the last task from the record's own list (v.pop()) before
\* rendering what is left
QuestTasksPops ==
  /\ pc = "quest" /\ q_i <= Len(input.quest)
  /\ input.quest[q_i][1] = K_TASKS
  /\ Len(input.quest[q_i][2]) >= 2
  /\ quest_str' = quest_str \o QuestLine(K_TASKS, TasksValue(input.quest[q_i][2]))
  /\ input' = [input EXCEPT !.quest[q_i][2] = SubSeq(@, 1, Len(@) - 1)]
  /\ q_i' = q_i + 1
  /\ UNCHANGED <<path, TRAIN_TYPE, KG_DEPTH, kg_map, history, tokenized, composed, pc,
                 text, output>>

\* the tasks: all but the last, capitalized, one per line
QuestTasks ==
  /\ pc = "quest" /\ q_i <= Len(input.quest)
  /\ input.quest[q_i][1] = K_TASKS
  /\ Len(input.quest[q_i][2]) >= 2
  /\ quest_str' = quest_str \o QuestLine(K_TASKS, TasksValue(input.quest[q_i][2]))
  /\ q_i' = q_i + 1
  /\ UNCHANGED <<globals, history, tokenized, composed, pc, text, output>>

\* the tasks: v[:-1] is empty, np.char.capitalize gets a non-string array and raises
QuestTasksFails ==
  /\ pc = "quest" /\ q_i <= Len(input.quest)
  /\ input.quest[q_i][1] = K_TASKS
  /\ Len(input.quest[q_i][2]) < 2
  /\ pc' = "TypeError"
  /\ UNCHANGED <<globals, history, tokenized, composed, tail>>

\* any other field: value = v.capitalize()
QuestField ==
  /\ pc = "quest" /\ q_i <= Len(input.quest)
  /\ input.quest[q_i][1] \notin {K_DESCRIPTION, K_TASKS}
  /\ quest_str' = quest_str \o QuestLine(input.quest[q_i][1], Capitalize(input.quest[q_i][2]))
  /\ q_i' = q_i + 1
  /\ UNCHANGED <<globals, history, tokenized, composed, pc, text, output>>

\* [part for part in parts if part]
NonEmpty(parts) == SelectSeq(parts, LAMBDA part : part # <<>>)

\* sections that put the plots before the background
PromptPartsPlotsFirst(mode, bg, pl) ==
  IF mode \in {"no_kg", "tree_kg"} THEN <<pl, INTRO_BLURB>> ELSE <<pl, bg, INTRO_BLURB>>

\* the sections that open the prompt: the background only outside no_kg and tree_kg
PromptParts(mode, bg, pl) ==
  IF mode \in {"no_kg", "tree_kg"} THEN <<pl, INTRO_BLURB>> ELSE <<bg, pl, INTRO_BLURB>>

\* quest = f"{QUEST}\n{quest_str}"
QuestSection(qs) == QUEST \o NL \o qs

\* training: input['text'] is background, plots, blurb, quest, end
AssembleTraining ==
  /\ pc = "quest" /\ q_i > Len(input.quest)
  /\ path = "training"
  /\ text' = Join(NonEmpty(PromptParts(TRAIN_TYPE, background, plots)
                           \o <<QuestSection(quest_str), END_KEY>>), NL \o NL)
  /\ pc' = "done"
  /\ UNCHANGED <<globals, history, tokenized, composed, quest_str, q_i, output>>

\* a generation prompt that keeps the quest and the end marker, as the training text does
AssembleGenerationWithQuest ==
  /\ pc = "quest" /\ q_i > Len(input.quest)
  /\ path = "generation"
  /\ text' = Join(NonEmpty(PromptParts(TRAIN_TYPE, background, plots)
                           \o <<QuestSection(quest_str), END_KEY>>), NL \o NL)
  /\ output' = Join(NonEmpty(<<QuestSection(quest_str), END_KEY>>), NL \o NL)
  /\ pc' = "done"
  /\ UNCHANGED <<globals, history, tokenized, composed, quest_str, q_i>>

\* generation: input['text'] is background, plots, blurb; input['output'] is quest, end
AssembleGeneration ==
  /\ pc = "quest" /\ q_i > Len(input.quest)
  /\ path = "generation"
  /\ text' = Join(NonEmpty(PromptParts(TRAIN_TYPE, background, plots)), NL \o NL)
  /\ output' = Join(NonEmpty(<<QuestSection(quest_str), END_KEY>>), NL \o NL)
  /\ pc' = "done"
  /\ UNCHANGED <<globals, history, tokenized, composed, quest_str, q_i>>

(***************************************************************************)
(* preprocess_dataset / preprocess_val_dataset after the prompt is set: the *)
(* sample is tokenized under max_length with truncation, then filtered.     *)
(***************************************************************************)
\* the values of max_length the samples are tokenized under
MaxLengths == {127, 150}

\* the token the tokenizer puts first
BOS == "<s>"

\* the tokenizer without a limit: the first token, then one token per character
Tokenize(txt) == <<BOS>> \o txt

\* tokenizer(batch["text"], max_length=max_length, truncation=True)["input_ids"]
TokenizeTruncated(txt, limit) ==
  LET ids == Tokenize(txt)
  IN  IF Len(ids) > limit THEN SubSeq(ids, 1, limit) ELSE ids

\* a filter that lets a sample of max_length tokens through
FilterKeepsUpToLimit(ids, limit) == Len(ids) <= limit

\* lambda sample: len(sample["input_ids"]) < max_length
FilterKeeps(ids, limit) == Len(ids) < limit

\* dataset.map(_preprocessing_function, batched=True) on the finished sample
PreprocessBatch ==
  /\ pc = "done"
  /\ \E limit \in MaxLengths :
       /\ max_length' = limit
       /\ input_ids' = TokenizeTruncated(text, limit)
  /\ pc' = "tokenized"
  /\ UNCHANGED <<globals, history, composed, tail>>

\* dataset.filter keeps the sample
FilterKeep ==
  /\ pc = "tokenized"
  /\ FilterKeeps(input_ids, max_length)
  /\ pc' = "kept"
  /\ UNCHANGED <<globals, history, tokenized, composed, tail>>

\* dataset.filter removes the sample
FilterRemove ==
  /\ pc = "tokenized"
  /\ ~FilterKeeps(input_ids, max_length)
  /\ pc' = "removed"
  /\ UNCHANGED <<globals, history, tokenized, composed, tail>>

Next ==
  \/ Begin
  \/ BeginFails
  \/ KbTraining
  \/ KbGeneration
  \/ LookupGraph
  \/ LookupFails
  \/ SkipTraversal
  \/ NodeMatch
  \/ NodeNoMatch
  \/ EdgeSkip
  \/ EdgeProcess
  \/ EdgeAttributeFails
  \/ EdgeLabelFails
  \/ EdgesEnd
  \/ NodesEnd
  \/ Header
  \/ QuestDescription
  \/ QuestTasks
  \/ QuestTasksFails
  \/ QuestField
  \/ AssembleTraining
  \/ AssembleGeneration
  \/ PreprocessBatch
  \/ FilterKeep
  \/ FilterRemove

Spec == Init /\ [][Next]_vars

(***************************************************************************)
(* dataset.map(create_generation_prompt_formats): the function is called   *)
(* on one example after another, under the same globals.                   *)
(***************************************************************************)
\* the examples of the mapped dataset
CallInputs ==
  {Example("TESO", pl, <<>>, Quest0) : pl \in {<<P_ANN, P_KEY>>, <<P_INN>>}}
  \cup
  {Example("TESO", <<P_ANN, P_KEY>>, <<KbRecord(Ann, MaxRels)>>, Quest0)}
  \cup
  {Example("TESO", <<P_ANN, P_KEY>>, <<KbRecord(Ann, 1)>>, q) :
     q \in {Quest0, <<<<K_OBJECTIVE, V_OBJECTIVE>>>>}}

InitCalls ==
  /\ path = "generation"
  /\ KG_DEPTH \in Depths
  /\ TRAIN_TYPE = "text_kg"
  /\ kg_map \in {Registry(G) : G \in FewGraphs}
  /\ input \in CallInputs
  /\ pc = "begin"
  /\ plots = <<>>
  /\ background = <<>>
  /\ completed_rels = <<>>
  /\ completed_nodes = <<>>
  /\ relations = <<>>
  /\ edges = <<>>
  /\ kb_i = 1
  /\ node_i = 1
  /\ edge_j = 1
  /\ quest_str = <<>>
  /\ q_i = 1
  /\ text = <<>>
  /\ output = <<>>
  /\ rel_log = <<>>
  /\ samples = <<>>
  /\ calls = 1
  /\ results = <<>>
  /\ max_length = 0
  /\ input_ids = <<>>

\* the call has returned and the map calls the function on the next example: the
\* example is a new record without text or output, the quest rendering starts
\* over; what the locals of the composition held is left as it was
NextCall ==
  /\ pc = "done" /\ calls < MaxCalls
  /\ results' = Append(results, [input |-> input, samples |-> samples,
                                  background |-> background, text |-> text])
  /\ calls' = calls + 1
  /\ input' \in CallInputs
  /\ pc' = "begin"
  /\ quest_str' = <<>>
  /\ q_i' = 1
  /\ text' = <<>>
  /\ output' = <<>>
  /\ rel_log' = <<>>
  /\ samples' = <<>>
  /\ UNCHANGED <<path, TRAIN_TYPE, KG_DEPTH, kg_map, plots, background, completed_rels,
                 completed_nodes, relations, edges, kb_i, node_i, edge_j, tokenized>>

NextCalls ==
  \/ Begin
  \/ KbGeneration
  \/ LookupGraph
  \/ SkipTraversal
  \/ NodeMatch
  \/ NodeNoMatch
  \/ EdgeSkip
  \/ EdgeProcess
  \/ EdgesEnd
  \/ NodesEnd
  \/ Header
  \/ QuestDescription
  \/ QuestTasks
  \/ QuestField
  \/ AssembleGeneration
  \/ NextCall

SpecCalls == InitCalls /\ [][NextCalls]_vars

\* a graph with a self-loop or with two nodes joined in both directions
HasCycle(G) == \E e, f \in Range(G.edges) : e[1] = f[2] /\ e[2] = f[1]

\* the calls in text_kg mode over the four-node graphs, and over the small
\* graphs with a cycle when the plots name Ann and Key and there is no kb
InitRuns ==
  /\ path \in {"training", "generation"}
  /\ KG_DEPTH \in Depths
  /\ TRAIN_TYPE = "text_kg"
  /\ \/ /\ kg_map \in {Registry(G) : G \in WideGraphs}
        /\ input \in {Example("TESO", pl, kbs, Quest0) :
                        pl \in PlotsChoices, kbs \in {<<>>, <<KbRecord(Ann, 1)>>}}
     \/ /\ kg_map \in {Registry(G) : G \in {H \in Graphs : HasCycle(H)}}
        /\ input = Example("TESO", <<P_ANN, P_KEY>>, <<>>, Quest0)
  /\ pc = "begin"
  /\ plots = <<>>
  /\ background = <<>>
  /\ completed_rels = <<>>
  /\ completed_nodes = <<>>
  /\ relations = <<>>
  /\ edges = <<>>
  /\ kb_i = 1
  /\ node_i = 1
  /\ edge_j = 1
  /\ quest_str = <<>>
  /\ q_i = 1
  /\ text = <<>>
  /\ output = <<>>
  /\ rel_log = <<>>
  /\ samples = <<>>
  /\ calls = 1
  /\ results = <<>>
  /\ max_length = 0
  /\ input_ids = <<>>

\* the steps of one call up to its return
NextRuns ==
  \/ Begin
  \/ KbTraining
  \/ KbGeneration
  \/ LookupGraph
  \/ SkipTraversal
  \/ NodeMatch
  \/ NodeNoMatch
  \/ EdgeSkip
  \/ EdgeProcess
  \/ EdgesEnd
  \/ NodesEnd
  \/ Header
  \/ QuestDescription
  \/ QuestTasks
  \/ QuestField
  \/ AssembleTraining
  \/ AssembleGeneration

\* one call run by the interpreter: a statement that can run does run
SpecRuns == InitRuns /\ [][NextRuns]_vars /\ WF_vars(NextRuns)

(***************************************************************************)
(* The two notebooks on one example: create_training_prompt_formats, then  *)
(* create_generation_prompt_formats, under the same TRAIN_TYPE, KG_DEPTH    *)
(* and kg_map.                                                             *)
(***************************************************************************)
InitBoth ==
  /\ path = "training"
  /\ KG_DEPTH \in Depths
  /\ TRAIN_TYPE \in {"no_kg", "text_kg", "tree_kg"}
  /\ kg_map \in {Registry(G) : G \in FewGraphs}
  /\ input \in {Example("TESO", pl, kbs, Quest0) : pl \in PlotsChoices, kbs \in FewKbs}
  /\ pc = "begin"
  /\ plots = <<>>
  /\ background = <<>>
  /\ completed_rels = <<>>
  /\ completed_nodes = <<>>
  /\ relations = <<>>
  /\ edges = <<>>
  /\ kb_i = 1
  /\ node_i = 1
  /\ edge_j = 1
  /\ quest_str = <<>>
  /\ q_i = 1
  /\ text = <<>>
  /\ output = <<>>
  /\ rel_log = <<>>
  /\ samples = <<>>
  /\ calls = 1
  /\ results = <<>>
  /\ max_length = 0
  /\ input_ids = <<>>

\* the training function has returned; the generation function is called on the
\* same example, as a record without text
SwitchPath ==
  /\ pc = "done" /\ path = "training"
  /\ results' = Append(results, [input |-> input, background |-> background,
                                  text |-> text])
  /\ calls' = calls + 1
  /\ path' = "generation"
  /\ pc' = "begin"
  /\ quest_str' = <<>>
  /\ q_i' = 1
  /\ text' = <<>>
  /\ output' = <<>>
  /\ rel_log' = <<>>
  /\ samples' = <<>>
  /\ UNCHANGED <<TRAIN_TYPE, KG_DEPTH, kg_map, input, plots, background, completed_rels,
                 completed_nodes, relations, edges, kb_i, node_i, edge_j, tokenized>>

NextBoth ==
  \/ Begin
  \/ KbTraining
  \/ KbGeneration
  \/ LookupGraph
  \/ SkipTraversal
  \/ NodeMatch
  \/ NodeNoMatch
  \/ EdgeSkip
  \/ EdgeProcess
  \/ EdgesEnd
  \/ NodesEnd
  \/ Header
  \/ QuestDescription
  \/ QuestTasks
  \/ QuestField
  \/ AssembleTraining
  \/ AssembleGeneration
  \/ SwitchPath

SpecBoth == InitBoth /\ [][NextBoth]_vars

(***************************************************************************)
(* Properties.                                                             *)
(***************************************************************************)
Min(a, b) == IF a < b THEN a ELSE b

\* the text a step appended to background
Appended == SubSeq(background', Len(background) + 1, Len(background'))

\* a step that wrote a traversed edge (the only step of the traversal that
\* appends to completed_rels)
EdgeWritten == pc = "edges" /\ completed_rels' # completed_rels

\* the nodes within n hops of the nodes of S
RECURSIVE ReachIn(_, _, _)
ReachIn(G, S, n) ==
  IF n = 0 THEN S
  ELSE ReachIn(G, S \cup {e[2] : e \in {x \in Range(G.edges) : x[1] \in S}}, n - 1)

\* the number of hops at which a traversal (an edge list) reached each node
RECURSIVE HopsFrom(_, _, _)
HopsFrom(es, k, f) ==
  IF k > Len(es) THEN f
  ELSE HopsFrom(es, k + 1, [f EXCEPT ![es[k][2]] = f[es[k][1]] + 1])

Hops(es) == HopsFrom(es, 1, [n \in Names |-> 0])

\* every pair the kbs relate, in order
AllKbPairs(kbs) == Concat([k \in 1..Len(kbs) |-> KbPairs(kbs[k].name, kbs[k].relations)])

\* the composition is over: background is what the function joins into the text
BackgroundFinal == pc \in {"quest", "done", "TypeError"}

\* C1: in the Background returned by the text_kg composition, "<e> is a " occurs
\* at most once for every entity e.
C1_IsAOnce ==
  (TRAIN_TYPE = "text_kg" /\ BackgroundFinal) =>
    \A e \in Names : Cardinality(Occurrences(e \o IS_A, background)) <= 1

\* C2 as claimed: no pair of entities gets two relation sentences, in either
\* direction, in Phase A or Phase B.
C2_NoPairTwice ==
  \A a, b \in 1..Len(rel_log) :
    a < b => /\ rel_log[a] # rel_log[b]
             /\ rel_log[a] # <<rel_log[b][2], rel_log[b][1]>>

\* C2 as amended: Phase B writes no relation sentence for a pair that already has
\* one, in either direction, from Phase A or from an earlier traversed edge.
C2_NoPairTwiceInPhaseB ==
  [][(pc = "edges" /\ rel_log' # rel_log) =>
       LET pair == rel_log'[Len(rel_log')]
       IN  /\ Len(rel_log') = Len(rel_log) + 1
           /\ ~InList(pair, rel_log)
           /\ ~InList(<<pair[2], pair[1]>>, rel_log)]_vars

\* a traversed edge was passed over whose reverse pair had its relation sentence
C2_Witness ==
  /\ pc = "edges" /\ edge_j > 1
  /\ InList(<<edges[edge_j - 1][2], edges[edge_j - 1][1]>>, rel_log)

\* C3: with depth <= 0 the traversal never runs and the Background holds the kb
\* blocks only, each with its whole relation list in order, on both paths.
C3_NoTraversalAtDepthZero ==
  (TRAIN_TYPE = "text_kg" /\ KG_DEPTH <= 0) =>
    /\ pc \notin {"nodes", "edges"}
    /\ BackgroundFinal =>
         /\ completed_nodes = [k \in 1..Len(input.kbs) |-> input.kbs[k].name]
         /\ completed_rels = AllKbPairs(input.kbs)
         /\ rel_log = AllKbPairs(input.kbs)

\* C4: every processed kb whose description differs from its name has its
\* description sentence right after its type sentence, at every depth.
C4_DescriptionAtEveryDepth ==
  (TRAIN_TYPE = "text_kg" /\ "kbs" \in DOMAIN input) =>
    \A k \in 1..Len(input.kbs) :
      (k < kb_i /\ input.kbs[k].description # input.kbs[k].name) =>
        IsSubstr(TypeSentence(input.kbs[k].name, input.kbs[k].type)
                   \o DescSentence(input.kbs[k].name, input.kbs[k].description),
                 background)

\* the kb block the claims describe for the generation path at depth > 0
C5_Block(kb, rels) ==
  TypeSentence(kb.name, kb.type)
    \o (IF kb.description # kb.name THEN DescSentence(kb.name, kb.description) ELSE <<>>)
    \o Concat([k \in 1..Len(rels) |-> KbRelSentence(kb.name, rels[k])])
    \o NL

\* the number of relation sentences Phase A owes the first n kbs at depth d
RECURSIVE C5_Owed(_, _, _)
C5_Owed(kbs, n, d) ==
  IF n = 0 THEN 0 ELSE C5_Owed(kbs, n - 1, d) + Min(d - 1, Len(kbs[n].relations))

\* C5: on the generation path with depth d > 0, the kb just processed got exactly
\* min(d-1, len(kb.relations)) relation sentences, taken from distinct positions
\* of kb.relations, and none at d = 1; so did every kb before it.
C5_SampledRelationCount ==
  (TRAIN_TYPE = "text_kg" /\ path = "generation" /\ KG_DEPTH > 0
     /\ pc = "kbs" /\ kb_i > 1) =>
    LET kb == input.kbs[kb_i - 1]
    IN  /\ Len(relations) = Min(KG_DEPTH - 1, Len(kb.relations))
        /\ \E p \in [1..Len(relations) -> 1..Len(kb.relations)] :
             /\ \A a, b \in 1..Len(relations) : a # b => p[a] # p[b]
             /\ \A a \in 1..Len(relations) : relations[a] = kb.relations[p[a]]
        /\ EndsWith(background, C5_Block(kb, relations))
        /\ Len(rel_log) = C5_Owed(input.kbs, kb_i - 1, KG_DEPTH)
        /\ KG_DEPTH = 1 => rel_log = <<>>

\* at depth 2 a kb with two relations got one sentence, for its second relation
C5_Witness ==
  /\ TRAIN_TYPE = "text_kg" /\ path = "generation" /\ KG_DEPTH = 2
  /\ pc = "kbs" /\ kb_i > 1
  /\ Len(input.kbs[kb_i - 1].relations) = 2
  /\ relations = <<input.kbs[kb_i - 1].relations[2]>>
  /\ EndsWith(background, KbRelSentence(input.kbs[kb_i - 1].name, relations[1]) \o NL)

\* C6: with depth d > 0, every edge of the traversal from a matched node was
\* reached within d hops of that node, on the training path as on the
\* generation path.
C6_TraversalWithinDepth ==
  (TRAIN_TYPE = "text_kg" /\ KG_DEPTH > 0 /\ pc = "edges") =>
    \A k \in 1..Len(edges) : Hops(edges)[edges[k][2]] <= KG_DEPTH

\* C7 as claimed: at depth 1 the traversal from a matched node reaches every node
\* reachable from it, and Phase A writes no relation sentence.
C7_FullDepthAtDepthOne ==
  (TRAIN_TYPE = "text_kg" /\ path = "generation" /\ KG_DEPTH = 1) =>
    /\ pc = "kbs" => rel_log = <<>>
    /\ pc = "edges" =>
         {edges[k][2] : k \in 1..Len(edges)}
           = ReachIn(Kg, {Kg.nodes[node_i]}, Len(Kg.nodes)) \ {Kg.nodes[node_i]}

\* C7 as amended: at depth 1 the traversal from a matched node is one hop deep:
\* its edges are exactly the edges from the matched node to its direct
\* successors, in adjacency order; Phase A writes descriptions and no relations.
C7_OneHopAtDepthOne ==
  (TRAIN_TYPE = "text_kg" /\ path = "generation" /\ KG_DEPTH = 1) =>
    /\ pc = "kbs" =>
         /\ rel_log = <<>>
         /\ \A k \in 1..Len(input.kbs) :
              (k < kb_i /\ input.kbs[k].description # input.kbs[k].name) =>
                IsSubstr(DescSentence(input.kbs[k].name, input.kbs[k].description),
                         background)
    /\ pc = "edges" =>
         LET s == Kg.nodes[node_i]
             succ == SelectSeq(Neighbors(Kg, s), LAMBDA n : n # s)
         IN  edges = [k \in 1..Len(succ) |-> <<s, succ[k]>>]

\* at depth 1 a matched node has a node two hops away that its traversal left out
C7_Witness ==
  /\ TRAIN_TYPE = "text_kg" /\ path = "generation" /\ KG_DEPTH = 1
  /\ pc = "edges" /\ edges # <<>>
  /\ \E n \in ReachIn(Kg, {Kg.nodes[node_i]}, 2) \ {Kg.nodes[node_i]} :
       \A k \in 1..Len(edges) : edges[k][2] # n

\* the introduction C8 states for ent2
C8_Intro(G, ent2) ==
  TypeSentence(ent2, G.attrs[ent2].type)
    \o (IF G.attrs[ent2].description # ent2
        THEN DescSentence(ent2, G.attrs[ent2].description) ELSE <<>>)

\* C8: when a traversed edge is written and ent2 is not yet in completed_nodes,
\* the text written holds "<ent2> is a <type(ent2)>. " followed by ent2's
\* description sentence when it has one, on both paths.
C8_Ent2Introduction ==
  [][(TRAIN_TYPE = "text_kg" /\ EdgeWritten
        /\ ~InList(edges[edge_j][2], completed_nodes)
        /\ edges[edge_j][2] # edges[edge_j][1]) =>
       IsSubstr(C8_Intro(Kg, edges[edge_j][2]) \o NL, Appended)]_vars

\* the relation sentence C9 states for an edge
C9_Sentence(ent1, ent2, label, e1_type) ==
  CASE label = CONNECTED_TO -> ent1 \o IS \o CONNECTED_TO \o SP \o ent2 \o DOT_SP
    [] label = PRESENT_IN /\ e1_type = LOCATION ->
         ent2 \o IS \o PRESENT_IN \o SP \o ent2 \o DOT_SP
    [] label = PRESENT_IN /\ e1_type # LOCATION ->
         ent1 \o IS \o PRESENT_IN \o SP \o ent2 \o DOT_SP
    [] label = HELD_BY /\ e1_type = CHARACTER ->
         ent2 \o IS \o HELD_BY \o SP \o ent1 \o DOT_SP
    [] label = HELD_BY /\ e1_type # CHARACTER ->
         ent1 \o IS \o HELD_BY \o SP \o ent2 \o DOT_SP
    [] OTHER -> <<>>

\* the number of sentences "... is <label> ..." in a text, over the labels in use
C9_RelSentences(txt) ==
  Cardinality(UNION {{<<l, k>> : k \in Occurrences(IS \o l \o SP, txt)} :
                       l \in {CONNECTED_TO, PRESENT_IN, HELD_BY, NEAR}})

\* C9: the text written for a traversed edge ends with the relation sentence that
\* the label and the type of ent1 fix, then a newline, and holds no other
\* relation sentence.
C9_RelationPhrasing ==
  [][(TRAIN_TYPE = "text_kg" /\ EdgeWritten) =>
       LET ent1 == edges[edge_j][1]
           ent2 == edges[edge_j][2]
           want == C9_Sentence(ent1, ent2, EdgeLabel(Kg, ent1, ent2), Kg.attrs[ent1].type)
       IN  /\ EndsWith(Appended, want \o NL)
           /\ C9_RelSentences(Appended) = (IF want = <<>> THEN 0 ELSE 1)]_vars

\* a "present in" edge out of a location was written as "Key is present in Key. "
C9_Witness ==
  /\ pc = "edges" /\ edge_j > 1
  /\ edges[edge_j - 1] = <<Inn, Key>>
  /\ EndsWith(background, Key \o IS \o PRESENT_IN \o SP \o Key \o DOT_SP \o NL)

\* C10: a graph node becomes a traversal source exactly when its name occurs,
\* case-insensitively, in the plot strings joined by newlines.
C10_SourceIffInPlots ==
  [][(TRAIN_TYPE = "text_kg" /\ pc = "nodes" /\ node_i <= Len(Kg.nodes)) =>
       ((pc' = "edges") <=>
          IsSubstr(Lower(Kg.nodes[node_i]), Lower(Join(input.plots, NL))))]_vars

\* s starts with p
StartsWith(s, p) == Len(p) <= Len(s) /\ SubSeq(s, 1, Len(p)) = p

\* C11: in text_kg mode the returned Background starts with "### Background:\n";
\* with no kbs and no edge written it is exactly that header, and the assembled
\* text is the header, the blank-line separator, then the plots section.
C11_BackgroundHeader ==
  (TRAIN_TYPE = "text_kg" /\ BackgroundFinal) =>
    /\ StartsWith(background, BACKGROUND \o NL)
    /\ (input.kbs = <<>> /\ completed_rels = <<>>) =>
         /\ background = BACKGROUND \o NL
         /\ pc = "done" => StartsWith(text, BACKGROUND \o NL \o NL \o NL \o PLOTS_KEY \o NL)

\* an example without kbs whose plots name no node with edges was assembled
C11_Witness ==
  /\ TRAIN_TYPE = "text_kg" /\ pc = "done"
  /\ input.kbs = <<>> /\ completed_rels = <<>>
  /\ input.game \in DOMAIN kg_map /\ node_i > Len(Kg.nodes)
  /\ background = BACKGROUND \o NL

\* C12: a call that was given the example of an earlier call of the same run
\* (same graph registry, same depth) and drew the same relation samples returns
\* the Background the earlier call returned, whatever was composed in between;
\* every call enters its kb loop with completed_rels and completed_nodes empty.
C12_SameInputsSameBackground ==
  /\ (pc = "kbs" /\ kb_i = 1) => (completed_rels = <<>> /\ completed_nodes = <<>>)
  /\ pc = "done" =>
       \A k \in 1..Len(results) :
         (results[k].input = input /\ results[k].samples = samples) =>
           results[k].background = background

\* the third call repeated the first, with a sampled relation and a written
\* edge, after a call on another example
C12_Witness ==
  /\ pc = "done" /\ calls = 3
  /\ results[1].input = input /\ results[1].samples = samples
  /\ results[2].input # input
  /\ samples # <<>> /\ samples[1] # <<>>
  /\ Len(completed_rels) > Len(samples[1])
  /\ results[1].background = background

\* the text the scenario expects of Phase A
C13_Expected ==
  TypeSentence(Delilah, CHARACTER) \o DescSentence(Delilah, THE_LEADER)
    \o Delilah \o IS \o PRESENT_IN \o SP \o Brigmore_Manor \o DOT

\* the graph of the scenario, its kbs
C13_Scenario ==
  /\ TRAIN_TYPE = "text_kg" /\ "kbs" \in DOMAIN input /\ input.kbs = ScenarioKbs
  /\ input.game \in DOMAIN kg_map /\ Kg \in ScenarioGraphs

\* C13: in the scenario of Delilah and Brigmore Manor at depth 2 the Background
\* holds "Delilah is a character. Delilah is the leader of the Brigmore Witches.
\* Delilah is present in Brigmore Manor." and exactly one relation sentence: the
\* traversal writes none for the pair, whichever of the two names the plots hold.
C13_DelilahScenario ==
  (C13_Scenario /\ KG_DEPTH = 2 /\ BackgroundFinal) =>
    /\ IsSubstr(C13_Expected, background)
    /\ rel_log = <<<<Delilah, Brigmore_Manor>>>>
    /\ C9_RelSentences(background) = 1

\* the plots name both, and the traversal from each passed over its edge
C13_Witness ==
  /\ C13_Scenario /\ KG_DEPTH = 2 /\ path = "generation" /\ pc = "done"
  /\ input.plots = <<P_DELILAH, P_MANOR>>
  /\ Len(Kg.edges) = 2
  /\ edges = <<<<Brigmore_Manor, Delilah>>>> /\ edge_j = 2
  /\ completed_rels = <<<<Delilah, Brigmore_Manor>>>>

\* the lines the claim states for a tasks sequence: all but the last task,
\* capitalized, in order, each on a line of its own
C14_Lines(v) == Concat([k \in 1..(Len(v) - 1) |-> NL \o SP \o Capitalize(v[k])])

\* C14: rendering the tasks never fails, whatever the length of the sequence (0
\* and 1 included), and the quest text of a finished call holds, for the tasks
\* item, the first n-1 tasks in order, capitalized, one per line, and then ends
\* the item: the last task is not listed.
C14_TasksDropLast ==
  /\ pc # "TypeError"
  /\ pc = "done" =>
       \A k \in 1..Len(input.quest) :
         input.quest[k][1] = K_TASKS =>
           LET v == input.quest[k][2]
           IN  /\ IsSubstr(Capitalize(K_TASKS) \o COLON_SP, quest_str)
               /\ IsSubstr(C14_Lines(v) \o NL, quest_str)
               /\ Len(v) >= 1 => ~IsSubstr(Capitalize(v[Len(v)]), quest_str)

BLANK == NL \o NL

\* the plots section of an example
C15_Plots == PLOTS_KEY \o NL \o Join(input.plots, NL)

\* C15: the text of a finished training call is background, plots, blurb, quest,
\* end joined by "\n\n", the background being there exactly in text_kg; in no_kg
\* and tree_kg the text begins with "### Plots:\n" and the call never enters the
\* kb loop, the graph lookup or the traversal, and fails in no lookup but that
\* of plots or quest.
C15_TrainingText ==
  path = "training" =>
    /\ pc = "done" =>
         /\ text = (IF TRAIN_TYPE = "text_kg" THEN background \o BLANK ELSE <<>>)
                     \o C15_Plots \o BLANK \o INTRO_BLURB \o BLANK
                     \o QUEST \o NL \o quest_str \o BLANK \o END_KEY
         /\ StartsWith(text, BACKGROUND \o NL) <=> TRAIN_TYPE = "text_kg"
         /\ IsSubstr(BACKGROUND, text) <=> TRAIN_TYPE = "text_kg"
         /\ TRAIN_TYPE \in {"no_kg", "tree_kg"} => StartsWith(text, PLOTS_KEY \o NL)
    /\ TRAIN_TYPE \in {"no_kg", "tree_kg"} =>
         /\ pc \notin {"kbs", "nodes", "edges", "header"}
         /\ pc = "KeyError" => {"plots", "quest"} \ DOMAIN input # {}
         /\ background = <<>> /\ completed_rels = <<>> /\ completed_nodes = <<>>
         /\ kb_i = 1 /\ node_i = 1 /\ edge_j = 1

\* a tree_kg example without the field kbs, with plots that name a node, was
\* assembled
C15_Witness ==
  /\ path = "training" /\ TRAIN_TYPE = "tree_kg" /\ pc = "done"
  /\ "kbs" \notin DOMAIN input /\ input.plots = <<P_ANN, P_KEY>>
  /\ StartsWith(text, PLOTS_KEY \o NL \o P_ANN)
  /\ EndsWith(text, BLANK \o END_KEY)

\* C16: on the generation path the text of a finished call is background (in
\* text_kg only), plots, blurb joined by "\n\n", its output is "### Quest:\n" with
\* the quest text, then "### End", joined by "\n\n"; the text holds neither the
\* quest header nor the end marker.
C16_GenerationTextAndOutput ==
  (path = "generation" /\ pc = "done") =>
    /\ text = (IF TRAIN_TYPE = "text_kg" THEN background \o BLANK ELSE <<>>)
                \o C15_Plots \o BLANK \o INTRO_BLURB
    /\ output = QUEST \o NL \o quest_str \o BLANK \o END_KEY
    /\ StartsWith(text, BACKGROUND \o NL) <=> TRAIN_TYPE = "text_kg"
    /\ ~IsSubstr(QUEST, text)
    /\ ~IsSubstr(END_KEY, text)

\* a text_kg example with a rendered quest was assembled on the generation path
C16_Witness ==
  /\ path = "generation" /\ TRAIN_TYPE = "text_kg" /\ pc = "done"
  /\ quest_str # <<>>
  /\ EndsWith(text, BLANK \o INTRO_BLURB)
  /\ StartsWith(output, QUEST \o NL \o Capitalize(K_TITLE))
  /\ EndsWith(output, NL \o BLANK \o END_KEY)

\* C17: in text_kg mode an example whose game has no graph in the registry
\* never gets a Background or a text, at any depth: its composition stops in
\* the lookup error.
C17_MissingGraphFails ==
  (TRAIN_TYPE = "text_kg" /\ input.game \notin DOMAIN kg_map) =>
    /\ pc \in {"begin", "kbs", "KeyError"}
    /\ text = <<>>

\* the fault C18 is about: an endpoint of the edge is stored without its type or
\* its description, or the edge is stored without a label
C18_Faulty(G, ent1, ent2) ==
  \/ \E n \in {ent1, ent2} : {"type", "description"} \ DOMAIN G.attrs[n] # {}
  \/ \E k \in 1..Len(G.edges) :
       G.edges[k][1] = ent1 /\ G.edges[k][2] = ent2 /\ Len(G.edges[k]) < 3

\* C18: when the traversal comes to an edge it does not pass over and the edge
\* has such a fault, the call ends in the lookup error, there and then; a call
\* that ended so stays ended and has set neither text nor output.
C18_FaultyEdgeFails ==
  [][/\ (TRAIN_TYPE = "text_kg" /\ pc = "edges" /\ edge_j <= Len(edges)
          /\ ~InList(edges[edge_j], completed_rels)
          /\ ~InList(<<edges[edge_j][2], edges[edge_j][1]>>, completed_rels)
          /\ C18_Faulty(Kg, edges[edge_j][1], edges[edge_j][2])) =>
         (pc' = "KeyError" /\ text' = <<>> /\ output' = <<>>)
     /\ pc = "KeyError" => (pc' = "KeyError" /\ text = <<>> /\ output = <<>>)]_vars

\* an edge without a label stopped the call after its introductions were
\* appended to the local background; no text was set
C18_Witness ==
  /\ pc = "KeyError" /\ input.game \in DOMAIN kg_map
  /\ edge_j <= Len(edges)
  /\ EdgeLabel(Kg, edges[edge_j][1], edges[edge_j][2]) = KEY_ERROR
  /\ EndsWith(background,
              TypeSentence(edges[edge_j][2], Kg.attrs[edges[edge_j][2]].type) \o NL)
  /\ text = <<>>

\* C19: an example that lacks plots, kbs or quest never gets a text or an
\* output and its call never finishes, in every mode.
C19_MissingFieldRejected ==
  ({"plots", "kbs", "quest"} \ DOMAIN input # {}) =>
    (pc # "done" /\ text = <<>> /\ output = <<>>)

\* C20: a sample that is left after the filter has fewer than max_length tokens,
\* and they are the tokens of its whole text; a sample whose text has max_length
\* tokens or more is removed, whether it was cut to max_length or has exactly
\* max_length tokens.
C20_KeptBelowMaxLength ==
  /\ pc = "kept" =>
       /\ Len(input_ids) < max_length
       /\ input_ids = Tokenize(text)
  /\ (pc \in {"kept", "removed"} /\ Len(Tokenize(text)) >= max_length) => pc = "removed"
  /\ pc = "removed" => Len(input_ids) = max_length

\* a text of more than max_length tokens was cut to max_length and removed
C20_Witness ==
  /\ pc = "removed"
  /\ Len(Tokenize(text)) > max_length
  /\ Len(input_ids) = max_length
  /\ input_ids = SubSeq(Tokenize(text), 1, max_length)

\* C21: the generation function, given the example the training function was
\* given, under the same mode and depth and with every kb's relations drawn as
\* the training function writes them, sets a text and an output such that the
\* training text is the text, a blank line, the output.
C21_TrainingIsTextThenOutput ==
  (path = "generation" /\ pc = "done" /\ results # <<>>
     /\ \A k \in 1..Len(samples) : samples[k] = input.kbs[k].relations) =>
    results[1].text = text \o BLANK \o output

\* C22: on the generation path at depth d > 0, every node within d hops of a
\* matched source node is the target of an edge of that source's traversal.
C22_WithinDepthReached ==
  (TRAIN_TYPE = "text_kg" /\ path = "generation" /\ KG_DEPTH > 0 /\ pc = "edges") =>
    ReachIn(Kg, {Kg.nodes[node_i]}, KG_DEPTH) \ {Kg.nodes[node_i]}
      \subseteq {edges[k][2] : k \in 1..Len(edges)}

\* the edge list of the running traversal names every node as a target at most
\* once and never the source, so it has at most |nodes| - 1 edges; the
\* traversal belongs to one node of the graph and the edge loop is within it
C23_Bounded ==
  (TRAIN_TYPE = "text_kg" /\ pc = "edges") =>
    /\ \A a, b \in 1..Len(edges) : a # b => edges[a][2] # edges[b][2]
    /\ \A a \in 1..Len(edges) : edges[a][2] # Kg.nodes[node_i]
    /\ Len(edges) <= Len(Kg.nodes) - 1
    /\ node_i <= Len(Kg.nodes)
    /\ edge_j <= Len(edges) + 1

\* the function is past its loops: it has set the text or raised
C23_Over == pc \notin {"begin", "kbs", "nodes", "edges", "header", "quest"}

\* C23: every call of a prompt-format function comes to an end, on graphs with
\* cycles and self-loops too; every traversal is bounded as C23_Bounded says.
C23_CompositionTerminates == []C23_Bounded /\ <>C23_Over

\* a composition over a graph with a self-loop and cycles has ended after
\* writing traversed edges
C23_Witness ==
  /\ TRAIN_TYPE = "text_kg" /\ pc = "done" /\ rel_log # <<>>
  /\ input.game \in DOMAIN kg_map
  /\ \E e \in Range(Kg.edges) : e[1] = e[2]
  /\ \E e, f \in Range(Kg.edges) : e[1] = f[2] /\ e[2] = f[1] /\ e[1] # e[2]

\* the traversed edge the loop is at has its pair in completed_rels, in one
\* orientation or the other
C24_PairCompleted ==
  /\ TRAIN_TYPE = "text_kg" /\ pc = "edges" /\ edge_j <= Len(edges)
  /\ \E k \in 1..Len(completed_rels) :
       \/ completed_rels[k] = <<edges[edge_j][1], edges[edge_j][2]>>
       \/ completed_rels[k] = <<edges[edge_j][2], edges[edge_j][1]>>

\* C24: the step at a traversed edge whose pair is in completed_rels in either
\* orientation writes nothing to background, raises nothing (it reads no node
\* attribute), leaves completed_nodes and completed_rels as they were and
\* moves on to the next edge.
C24_SkippedEdgeNoEffect ==
  [][C24_PairCompleted =>
       /\ background' = background
       /\ completed_nodes' = completed_nodes
       /\ completed_rels' = completed_rels
       /\ rel_log' = rel_log
       /\ pc' = "edges"
       /\ edges' = edges /\ node_i' = node_i /\ edge_j' = edge_j + 1]_vars

\* the edge before the one the loop is at was skipped over its reverse pair,
\* and one of its nodes lacks an attribute the loop body would have read
C24_Witness ==
  /\ TRAIN_TYPE = "text_kg" /\ pc = "edges" /\ edge_j > 1
  /\ InList(<<edges[edge_j - 1][2], edges[edge_j - 1][1]>>, completed_rels)
  /\ ~InList(<<edges[edge_j - 1][1], edges[edge_j - 1][2]>>, completed_rels)
  /\ AttributeMissing(Kg, edges[edge_j - 1][1], edges[edge_j - 1][2])

\* the blocks of the first n kbs, in the order of example.kbs, each with the
\* relations drawn for it
C25_Blocks(n) ==
  Concat([k \in 1..n |-> KbBlockGeneration(input.kbs[k], samples[k], KG_DEPTH)])

\* the composed text without the header line the function puts in front of it
C25_Body ==
  IF StartsWith(background, BACKGROUND \o NL)
  THEN SubSeq(background, Len(BACKGROUND \o NL) + 1, Len(background))
  ELSE background

\* Phase A: the text is the kb blocks in the order of example.kbs, one block
\* ending in a newline per kb processed, and whatever follows comes after them
C25_PhaseA ==
  (TRAIN_TYPE = "text_kg" /\ path = "generation" /\ "kbs" \in DOMAIN input
     /\ pc \notin {"begin", "done", "tokenized", "kept", "removed"}) =>
    /\ Len(samples) <= Len(input.kbs)
    /\ StartsWith(C25_Body, C25_Blocks(Len(samples)))
    /\ \A k \in 1..Len(samples) :
         LET b == KbBlockGeneration(input.kbs[k], samples[k], KG_DEPTH)
         IN  b[Len(b)] = "\n" /\ Cardinality(Occurrences(NL, b)) = 1
    /\ pc = "kbs" => Len(samples) = kb_i - 1 /\ background = C25_Blocks(kb_i - 1)
    /\ pc \in {"nodes", "edges", "header", "quest"} => Len(samples) = Len(input.kbs)

\* Phase B: a step appends at the end of the text; the sources are taken in the
\* stored node order; the edge list of a source is its depth-first edge list
\* and is walked from its first edge to its last, and what a step writes is the
\* text of the edge the loop is at
C25_PhaseBStep ==
  (TRAIN_TYPE = "text_kg" /\ path = "generation" /\ pc \in {"nodes", "edges"}) =>
    /\ StartsWith(background', background)
    /\ node_i' \in {node_i, node_i + 1}
    /\ (pc = "nodes" /\ pc' = "edges") =>
         /\ node_i' = node_i /\ edge_j' = 1 /\ background' = background
         /\ NodeMatches(Kg.nodes[node_i], plots)
         /\ edges' = dfs_edges(Kg, Kg.nodes[node_i], KG_DEPTH)
    /\ (pc = "nodes" /\ pc' = "nodes") => node_i' = node_i + 1 /\ background' = background
    /\ (pc = "edges" /\ pc' = "edges") =>
         /\ node_i' = node_i /\ edges' = edges /\ edge_j' = edge_j + 1
         /\ background' # background =>
              Appended = EdgeText(path, Kg, edges[edge_j][1], edges[edge_j][2], completed_nodes)
    /\ (pc = "edges" /\ pc' = "nodes") => node_i' = node_i + 1 /\ background' = background

\* C25: on the generation path the Background holds the kb blocks in the order
\* of example.kbs, one newline-terminated block per kb, then the Phase B text,
\* written source by source in the stored node order and, within a source, edge
\* by edge in the depth-first order of its traversal.
C25_OutputOrder == []C25_PhaseA /\ [][C25_PhaseBStep]_vars

\* a kb block with a relation sentence was written, then edges of a first
\* matched source, then an edge of a later matched source
C25_Witness ==
  /\ TRAIN_TYPE = "text_kg" /\ path = "generation" /\ pc = "edges"
  /\ Len(samples) >= 1 /\ samples[1] # <<>>
  /\ node_i >= 2 /\ edge_j > 1
  /\ completed_rels[Len(completed_rels)] = edges[edge_j - 1]
  /\ \E k \in 1..(Len(completed_rels) - 1) :
       /\ completed_rels[k][1] = Kg.nodes[1]
       /\ completed_rels[k] \notin Range(KbPairs(input.kbs[1].name, samples[1]))

\* the text the claim states for one field of the quest
C26_Rendered(item) ==
  IF item[1] = K_DESCRIPTION THEN <<>>
  ELSE IF item[1] = K_TASKS
       THEN <<"T", "a", "s", "k", "s", ":", " ">> \o C14_Lines(item[2]) \o NL
       ELSE Capitalize(item[1]) \o <<":", " ">> \o Capitalize(item[2]) \o NL

\* C26: the quest text is, for the fields walked so far in insertion order, the
\* line of each field other than description ("<Field capitalized>: <value
\* capitalized>" and a newline), and nothing for description; it holds as many
\* line headers as fields other than description were walked.
C26_QuestRendering ==
  ("quest" \in DOMAIN input
     /\ pc \notin {"begin", "kbs", "nodes", "edges", "header", "KeyError"}) =>
    /\ q_i <= Len(input.quest) + 1
    /\ quest_str = Concat([k \in 1..(q_i - 1) |-> C26_Rendered(input.quest[k])])
    /\ Cardinality(Occurrences(<<":", " ">>, quest_str))
         = Cardinality({k \in 1..(q_i - 1) : input.quest[k][1] # K_DESCRIPTION})
    /\ pc \in {"done", "tokenized", "kept", "removed"} => q_i = Len(input.quest) + 1

\* a quest with a description between two other fields was rendered whole
C26_Witness ==
  /\ pc = "done" /\ Len(input.quest) = 3
  /\ input.quest[2][1] = K_DESCRIPTION
  /\ input.quest[1][1] \notin {K_DESCRIPTION, K_TASKS}
  /\ Len(quest_str) > 0

\* C27: over the compositions run one after the other on an example, no step
\* changes the graph registry or a graph in it, nor the example's game, plots,
\* kbs or quest; a step sets the text field only when it returns, and the
\* output field only on the generation path.
C27_GraphAndRecordUnchanged ==
  [][/\ kg_map' = kg_map
     /\ input' = input
     /\ text' # text => (pc' = "done" \/ pc = "done")
     /\ path' = "training" => output' = <<>>]_vars

\* the training function, then the generation function have composed a
\* Background from the kbs and from traversed edges of the graph
C27_Witness ==
  /\ path = "generation" /\ pc = "done" /\ results # <<>>
  /\ TRAIN_TYPE = "text_kg" /\ input.kbs # <<>>
  /\ Len(completed_rels) > Len(samples[1])
  /\ text # <<>> /\ output # <<>>

\* C28: on the generation path, a call whose example has the game, plots and
\* kbs of the example of an earlier call, and the same sampled relations, sets
\* the text the earlier call set, whatever the two quests are.
C28_TextIndependentOfQuest ==
  pc = "done" =>
    \A k \in 1..Len(results) :
      (/\ results[k].input.game = input.game
       /\ results[k].input.plots = input.plots
       /\ results[k].input.kbs = input.kbs
       /\ results[k].samples = samples) =>
        results[k].text = text

\* two calls on examples that differ in the quest only, with a sampled relation
\* and a written edge, have returned different outputs
C28_Witness ==
  /\ pc = "done" /\ results # <<>>
  /\ results[1].input.game = input.game
  /\ results[1].input.plots = input.plots
  /\ results[1].input.kbs = input.kbs
  /\ results[1].input.quest # input.quest
  /\ results[1].samples = samples
  /\ samples # <<>> /\ samples[1] # <<>>
  /\ Len(completed_rels) > Len(samples[1])
  /\ text # <<>> /\ quest_str # <<>>

\* the text is said to introduce entity e: it holds "<e> is a <type>. "
C29_Introduced(e, txt) ==
  \E t \in {CHARACTER, LOCATION, OBJECT} : IsSubstr(e \o IS_A \o t \o DOT_SP, txt)

\* C29: on the generation path, a step of the edge loop that writes a relation
\* sentence for (e1, e2) leaves both e1 and e2 in completed_nodes, and the text
\* in front of that sentence holds "<e1> is a <type>. " and "<e2> is a <type>. ".
C29_IntroducedBeforeRelation ==
  [][(TRAIN_TYPE = "text_kg" /\ path = "generation" /\ pc = "edges"
        /\ rel_log' # rel_log) =>
       LET e1 == edges[edge_j][1]
           e2 == edges[edge_j][2]
           sentence == RelSentence(e1, e2, EdgeLabel(Kg, e1, e2), NodeAttr(Kg, e1, "type"))
           before == SubSeq(background', 1, Len(background') - Len(sentence) - 1)
       IN  /\ background' = before \o sentence \o NL
           /\ sentence # <<>>
           /\ InList(e1, completed_nodes') /\ InList(e2, completed_nodes')
           /\ C29_Introduced(e1, before) /\ C29_Introduced(e2, before)]_vars

\* a relation sentence was written for an edge neither node of which has a kb:
\* both were introduced by the edge loop
C29_Witness ==
  /\ TRAIN_TYPE = "text_kg" /\ path = "generation" /\ pc = "edges" /\ edge_j > 1
  /\ "kbs" \in DOMAIN input /\ input.kbs = <<>>
  /\ rel_log # <<>> /\ rel_log[Len(rel_log)] = edges[edge_j - 1]
  /\ Len(completed_nodes) >= 2

\* C30: at depth > 0 the Background of a returned call holds, for every graph
\* node whose name occurs in the plots, a sentence "<node> is a <type>. ".
C30_MatchedNodeIntroduced ==
  (TRAIN_TYPE = "text_kg" /\ KG_DEPTH > 0 /\ pc = "done") =>
    \A n \in Range(Kg.nodes) :
      NodeMatches(n, plots) => C29_Introduced(n, background)

====
